---- MODULE Spec2Model ----
(***************************************************************************)
(* State machine of the YewChat `Chat` component                           *)
(* (YewChat/src/components/chat.rs): the roster (`users`), the transcript  *)
(* (`messages`), the outbound channel (`wss.tx`), the text input           *)
(* (`chat_input`) and the three entry points create / update / view.       *)
(*                                                                         *)
(* Strings are sequences of Unicode code points.  A string that is handed  *)
(* to serde_json::from_str is modelled by what the parser sees in it: its  *)
(* syntax (an object or not) and, for an object, each field the           *)
(* deserializer looks at (missing, null, of the wrong JSON type, or a      *)
(* value).                                                                 *)
(***************************************************************************)
EXTENDS Integers, Sequences, FiniteSets, TLC

VARIABLES
    user,           \* the User context's username (read once by create)
    phase,          \* "Connecting" (not created), "Running", "Panicked";
                    \* under SpecClassify / SpecCodec the step reached
    users,          \* Chat.users    : Vec<UserProfile>
    messages,       \* Chat.messages : Vec<MessageData>
    chat_input,     \* Chat.chat_input and the <input> behind it
    tx,             \* every try_send on wss.tx, in order, with its result
    renderPending,  \* update returned true (or create ran) and view is due
    last,           \* the entry point that ran last, with its input/result
    operand,        \* the value a pure function is applied to (Classify, RoundTrip)
    result          \* what that function returned

vars ==
    <<user, phase, users, messages, chat_input, tx, renderPending, last,
      operand, result>>

(***************************************************************************)
(* Bounds of the model.                                                    *)
(***************************************************************************)
MaxMessages == 2    \* transcript length explored
MaxTx == 2          \* try_send calls explored (the register one included)
MaxPad == 1         \* whitespace characters put on each side of a body

(***************************************************************************)
(* Strings.                                                                *)
(***************************************************************************)
Alice == <<97>>
Bob == <<98>>
Names == {Alice, Bob}

Hi == <<104, 105>>
Grin == <<128512>>                      \* U+1F600
InputTexts == {Hi}

DotGif == <<46, 103, 105, 102>>

AvatarPrefix ==
    <<104, 116, 116, 112, 115, 58, 47, 47, 97, 118, 97, 116, 97, 114, 115,
      46, 100, 105, 99, 101, 98, 101, 97, 114, 46, 99, 111, 109, 47, 97,
      112, 105, 47, 97, 100, 118, 101, 110, 116, 117, 114, 101, 114, 45,
      110, 101, 117, 116, 114, 97, 108, 47>>

AvatarSuffix == <<46, 115, 118, 103>>

\* format!("https://avatars.dicebear.com/api/adventurer-neutral/{}.svg", u)
Avatar(u) == AvatarPrefix \o u \o AvatarSuffix

\* char::is_whitespace (Unicode White_Space), what str::trim strips
IsWhitespace(c) ==
    \/ c \in 9..13
    \/ c \in {32, 133, 160, 5760, 8232, 8233, 8239, 8287, 12288}
    \/ c \in 8192..8202

RECURSIVE TrimStart(_)
TrimStart(s) ==
    IF s # <<>> /\ IsWhitespace(Head(s)) THEN TrimStart(Tail(s)) ELSE s

RECURSIVE TrimEnd(_)
TrimEnd(s) ==
    IF s # <<>> /\ IsWhitespace(s[Len(s)])
    THEN TrimEnd(SubSeq(s, 1, Len(s) - 1))
    ELSE s

Trim(s) == TrimEnd(TrimStart(s))

\* str::ends_with
EndsWith(s, suffix) ==
    /\ Len(s) >= Len(suffix)
    /\ SubSeq(s, Len(s) - Len(suffix) + 1, Len(s)) = suffix

\* Variant of is_single_emoji: the text is measured without trimming it.
is_single_emoji_untrimmed(text) ==
    LET trimmed == text
        char_count == Len(trimmed)
    IN  IF char_count = 1
        THEN LET code == trimmed[1]
             IN  \/ (code >= 128512 /\ code <= 128591)
                 \/ (code >= 127744 /\ code <= 128511)
                 \/ (code >= 128640 /\ code <= 128767)
                 \/ (code >= 128768 /\ code <= 128895)
                 \/ (code >= 9728 /\ code <= 9983)
                 \/ (code >= 9984 /\ code <= 10175)
                 \/ (code >= 65024 /\ code <= 65039)
                 \/ (code >= 129280 /\ code <= 129535)
                 \/ (code >= 127000 /\ code <= 127600)
        ELSE FALSE

is_single_emoji(text) ==
    LET trimmed == Trim(text)
        char_count == Len(trimmed)
    IN  IF char_count = 1
        THEN LET code == trimmed[1]
             IN  \/ (code >= 128512 /\ code <= 128591)   \* 1F600..1F64F
                 \/ (code >= 127744 /\ code <= 128511)   \* 1F300..1F5FF
                 \/ (code >= 128640 /\ code <= 128767)   \* 1F680..1F6FF
                 \/ (code >= 128768 /\ code <= 128895)   \* 1F700..1F77F
                 \/ (code >= 9728 /\ code <= 9983)       \* 2600..26FF
                 \/ (code >= 9984 /\ code <= 10175)      \* 2700..27BF
                 \/ (code >= 65024 /\ code <= 65039)     \* FE00..FE0F
                 \/ (code >= 129280 /\ code <= 129535)   \* 1F900..1F9FF
                 \/ (code >= 127000 /\ code <= 127600)   \* 1F018..1F270
        ELSE FALSE

\* the if / else if / else of view that picks how a body is shown
RenderCategory(message) ==
    IF EndsWith(message, DotGif) THEN "Image"
    ELSE IF is_single_emoji(message) THEN "SingleEmoji"
    ELSE "Text"

(***************************************************************************)
(* JSON as serde_json sees it.  A field of an object is a record           *)
(* [tag, val]: tag "missing" (no such key), "null", "wrongtype" (a JSON    *)
(* value of a type the target cannot take) or "value".                     *)
(***************************************************************************)
Missing(dflt) == [tag |-> "missing", val |-> dflt]
Null(dflt) == [tag |-> "null", val |-> dflt]
WrongType(dflt) == [tag |-> "wrongtype", val |-> dflt]
Value(v) == [tag |-> "value", val |-> v]

\* A string that is not the text of a JSON object.
PlainText(s) ==
    [syntax |-> "text", cp |-> s, from |-> Missing(<<>>), message |-> Missing(<<>>)]

\* The text of a JSON object with the given "from" and "message" fields.
ObjectText(f, m) ==
    [syntax |-> "object", cp |-> <<>>, from |-> f, message |-> m]

EmptyText == PlainText(<<>>)

\* Option<T>
None(dflt) == [some |-> FALSE, val |-> dflt]
Some(v) == [some |-> TRUE, val |-> v]

\* #[serde(rename_all = "lowercase")] enum MsgTypes
MsgTypes == {"Users", "Register", "Message"}

MsgTypeName(t) ==
    CASE t = "Users" -> "users"
      [] t = "Register" -> "register"
      [] t = "Message" -> "message"

\* A raw frame that is not the text of a JSON object.
MalformedFrame ==
    [syntax |-> "text", messageType |-> Missing(""),
     dataArray |-> Missing(<<>>), data |-> Missing(EmptyText)]

\* The text of a JSON object with these three keys.
ObjectFrame(mt, da, d) ==
    [syntax |-> "object", messageType |-> mt, dataArray |-> da, data |-> d]

\* struct WebSocketMessage
WebSocketMessage(t, da, d) ==
    [message_type |-> t, data_array |-> da, data |-> d]

\* Deserialize of Option<T>: a missing key and null are both None.
DeOption(field, dflt) ==
    CASE field.tag = "missing" -> [ok |-> TRUE, val |-> None(dflt)]
      [] field.tag = "null" -> [ok |-> TRUE, val |-> None(dflt)]
      [] field.tag = "value" -> [ok |-> TRUE, val |-> Some(field.val)]
      [] OTHER -> [ok |-> FALSE, val |-> None(dflt)]

\* Deserialize of MsgTypes: one of the three lowercase names, or an error.
DeMsgType(field) ==
    IF field.tag = "value" /\ \E t \in MsgTypes : MsgTypeName(t) = field.val
    THEN [ok |-> TRUE,
          val |-> CHOOSE t \in MsgTypes : MsgTypeName(t) = field.val]
    ELSE [ok |-> FALSE, val |-> "Register"]

\* Variant of DecodeFrame: a frame carrying both dataArray and data is refused.
DecodeFrameOneFieldOnly(s) ==
    LET t == DeMsgType(s.messageType)
        da == DeOption(s.dataArray, <<>>)
        d == DeOption(s.data, EmptyText)
    IN  IF /\ s.syntax = "object" /\ t.ok /\ da.ok /\ d.ok
           /\ ~(da.val.some /\ d.val.some)
        THEN [ok |-> TRUE, val |-> WebSocketMessage(t.val, da.val, d.val)]
        ELSE [ok |-> FALSE,
              val |-> WebSocketMessage("Register", None(<<>>), None(EmptyText))]

\* serde_json::from_str::<WebSocketMessage>(&s)
DecodeFrame(s) ==
    LET t == DeMsgType(s.messageType)
        da == DeOption(s.dataArray, <<>>)
        d == DeOption(s.data, EmptyText)
    IN  IF s.syntax = "object" /\ t.ok /\ da.ok /\ d.ok
        THEN [ok |-> TRUE, val |-> WebSocketMessage(t.val, da.val, d.val)]
        ELSE [ok |-> FALSE,
              val |-> WebSocketMessage("Register", None(<<>>), None(EmptyText))]

\* Variant of SerOption: None is written as the empty value of the type.
SerOptionWritesDefault(o, dflt) == IF o.some THEN Value(o.val) ELSE Value(dflt)

\* Serialize of Option<T>: None is written as null.
SerOption(o, dflt) == IF o.some THEN Value(o.val) ELSE Null(dflt)

\* serde_json::to_string(&message) for a WebSocketMessage
EncodeFrame(m) ==
    ObjectFrame(Value(MsgTypeName(m.message_type)),
                SerOption(m.data_array, <<>>),
                SerOption(m.data, EmptyText))

\* struct MessageData
MessageData(f, m) == [from |-> f, message |-> m]

\* serde_json::from_str::<MessageData>(&text): both keys are required strings
DecodeMessageData(text) ==
    IF text.syntax = "object" /\ text.from.tag = "value" /\ text.message.tag = "value"
    THEN [ok |-> TRUE, val |-> MessageData(text.from.val, text.message.val)]
    ELSE [ok |-> FALSE, val |-> MessageData(<<>>, <<>>)]

\* struct UserProfile
UserProfile(n, a) == [name |-> n, avatar |-> a]

(***************************************************************************)
(* The frames the transport may deliver.                                   *)
(***************************************************************************)
\* dataArray values: empty, one name, two names in both orders, a repeat
NameLists ==
    {<<>>, <<Alice>>, <<Alice, Bob>>, <<Bob, Alice>>, <<Bob, Bob>>}

NestedTexts ==
    {ObjectText(Value(f), Value(Hi)) : f \in Names}
        \cup {PlainText(Hi),
              ObjectText(Missing(<<>>), Value(Hi)),
              ObjectText(Value(Alice), Null(<<>>)),
              ObjectText(WrongType(<<>>), Value(Hi))}

DataFields ==
    {Missing(EmptyText), Null(EmptyText), WrongType(EmptyText)}
        \cup {Value(x) : x \in NestedTexts}

UsersFrames ==
    {ObjectFrame(Value("users"), Value(ns), d) :
        ns \in NameLists,
        d \in {Null(EmptyText), Value(PlainText(Alice))}}
        \cup {ObjectFrame(Value("users"), da, Null(EmptyText)) :
                da \in {Missing(<<>>), Null(<<>>), WrongType(<<>>)}}
        \cup {ObjectFrame(Value("users"), Missing(<<>>), Missing(EmptyText))}

MessageFrames ==
    {ObjectFrame(Value("message"), Null(<<>>), d) : d \in DataFields}
        \cup {ObjectFrame(Value("message"), Value(<<Alice>>), Value(x)) :
                x \in {ObjectText(Value(f), Value(Hi)) : f \in Names}}

RegisterFrames ==
    {ObjectFrame(Value("register"), Null(<<>>), d) :
        d \in {Null(EmptyText), Value(PlainText(Alice))}}

RejectedFrames ==
    {MalformedFrame,
     ObjectFrame(Value("bogus"), Null(<<>>), Null(EmptyText)),
     ObjectFrame(Value("Users"), Value(<<Alice>>), Null(EmptyText)),
     ObjectFrame(Missing(""), Value(<<Alice>>), Null(EmptyText))}

InboundFrames == UsersFrames \cup MessageFrames \cup RegisterFrames \cup RejectedFrames

\* Stands for "no frame" in `last` when the entry point took none.
NoFrame ==
    [syntax |-> "none", messageType |-> Missing(""),
     dataArray |-> Missing(<<>>), data |-> Missing(EmptyText)]

Last(op, s, text, sent, ret) ==
    [op |-> op, s |-> s, text |-> text, sent |-> sent, ret |-> ret]

(***************************************************************************)
(* The outbound channel.                                                   *)
(***************************************************************************)
\* wss.tx.clone().try_send(text): accepted (Ok) or rejected (Err)
TrySend(log, text, ok) == Append(log, [text |-> text, ok |-> ok])

\* What the channel has accepted, in order.
Outbound ==
    LET accepted == SelectSeq(tx, LAMBDA e : e.ok)
    IN  [i \in 1..Len(accepted) |-> accepted[i].text]

(***************************************************************************)
(* Chat::create                                                            *)
(***************************************************************************)
\* Variant of RegisterMessage: the username travels in data_array.
RegisterMessageInArray(username) ==
    WebSocketMessage("Register", Some(<<username>>), None(EmptyText))

\* Variant of RegisterMessage: the envelope is built with the Message kind.
RegisterMessageWrongKind(username) ==
    WebSocketMessage("Message", None(<<>>), Some(PlainText(username)))

RegisterMessage(username) ==
    WebSocketMessage("Register", None(<<>>), Some(PlainText(username)))

Init ==
    /\ user \in Names
    /\ phase = "Connecting"
    /\ users = <<>>
    /\ messages = <<>>
    /\ chat_input = [mounted |-> FALSE, value |-> <<>>]
    /\ tx = <<>>
    /\ renderPending = FALSE
    /\ last = Last("none", NoFrame, <<>>, "none", FALSE)
    /\ operand = <<>>
    /\ result = <<>>

Create ==
    /\ phase = "Connecting"
    /\ LET username == user
           message == RegisterMessage(username)
       IN  \E ok \in BOOLEAN :
             /\ tx' = TrySend(tx, EncodeFrame(message), ok)
             /\ last' = Last("create", NoFrame, <<>>,
                             IF ok THEN "ok" ELSE "err", FALSE)
    /\ users' = <<>>
    /\ messages' = <<>>
    /\ chat_input' = [mounted |-> FALSE, value |-> <<>>]
    /\ phase' = "Running"
    /\ renderPending' = TRUE
    /\ UNCHANGED <<operand, result, user>>

(***************************************************************************)
(* Chat::update, Msg::HandleMsg(s)                                         *)
(***************************************************************************)
\* Variant of MapUsers: the profiles come out in reverse order.
MapUsersReversed(names) ==
    [i \in 1..Len(names) |->
        UserProfile(names[Len(names) + 1 - i], Avatar(names[Len(names) + 1 - i]))]

\* Variant of MapUsers: a name already taken earlier in the list is skipped.
MapUsersDedup(names) ==
    LET firsts == {i \in 1..Len(names) : \A j \in 1..(i - 1) : names[j] # names[i]}
        kept == SelectSeq([i \in 1..Len(names) |-> i], LAMBDA i : i \in firsts)
    IN  [k \in 1..Len(kept) |-> UserProfile(names[kept[k]], Avatar(names[kept[k]]))]

\* users_from_message.iter().map(|u| UserProfile {..}).collect()
MapUsers(names) ==
    [i \in 1..Len(names) |-> UserProfile(names[i], Avatar(names[i]))]

\* Variant of Push: an entry equal to one already present is not added.
PushDedup(ms, m) ==
    IF \E i \in 1..Len(ms) : ms[i] = m THEN ms ELSE Append(ms, m)

\* self.messages.push(message_data)
Push(ms, m) == Append(ms, m)

\* .unwrap() on an Err or a None: the panic ends the component
Panic(s) ==
    /\ phase' = "Panicked"
    /\ last' = Last("frame", s, <<>>, "none", FALSE)
    /\ UNCHANGED <<operand, result, user, users, messages, chat_input, tx, renderPending>>

\* Variant of HandleUsers: replacing the roster also empties the transcript.
HandleUsersClearsTranscript(msg, s) ==
    /\ LET users_from_message ==
               IF msg.data_array.some THEN msg.data_array.val ELSE <<>>
       IN  users' = MapUsers(users_from_message)
    /\ messages' = <<>>
    /\ renderPending' = TRUE
    /\ last' = Last("frame", s, <<>>, "none", TRUE)
    /\ UNCHANGED <<operand, result, user, phase, chat_input, tx>>

\* Variant of HandleUsers: without a data_array the roster is left as it is.
HandleUsersKeepsOnNone(msg, s) ==
    /\ users' = IF msg.data_array.some THEN MapUsers(msg.data_array.val) ELSE users
    /\ renderPending' = TRUE
    /\ last' = Last("frame", s, <<>>, "none", TRUE)
    /\ UNCHANGED <<operand, result, user, phase, messages, chat_input, tx>>

\* Variant of HandleUsers: the new profiles are added to the ones already there.
HandleUsersMerges(msg, s) ==
    /\ LET users_from_message ==
               IF msg.data_array.some THEN msg.data_array.val ELSE <<>>
           fresh == SelectSeq(MapUsers(users_from_message),
                              LAMBDA p : \A i \in 1..Len(users) : users[i] # p)
       IN  users' = users \o fresh
    /\ renderPending' = TRUE
    /\ last' = Last("frame", s, <<>>, "none", TRUE)
    /\ UNCHANGED <<operand, result, user, phase, messages, chat_input, tx>>

HandleUsers(msg, s) ==
    /\ LET users_from_message ==
               IF msg.data_array.some THEN msg.data_array.val ELSE <<>>
       IN  users' = MapUsers(users_from_message)
    /\ renderPending' = TRUE
    /\ last' = Last("frame", s, <<>>, "none", TRUE)
    /\ UNCHANGED <<operand, result, user, phase, messages, chat_input, tx>>

HandleMessage(msg, s) ==
    IF ~msg.data.some
    THEN Panic(s)
    ELSE LET message_data == DecodeMessageData(msg.data.val)
         IN  IF ~message_data.ok
             THEN Panic(s)
             ELSE /\ Len(messages) < MaxMessages
                  /\ messages' = Push(messages, message_data.val)
                  /\ renderPending' = TRUE
                  /\ last' = Last("frame", s, <<>>, "none", TRUE)
                  /\ UNCHANGED <<operand, result, user, phase, users, chat_input, tx>>

\* Variant of HandleOther: the fall-through arm asks for a re-render.
HandleOtherRerenders(msg, s) ==
    /\ renderPending' = TRUE
    /\ last' = Last("frame", s, <<>>, "none", TRUE)
    /\ UNCHANGED <<operand, result, user, phase, users, messages, chat_input, tx>>

HandleOther(msg, s) ==
    /\ last' = Last("frame", s, <<>>, "none", FALSE)
    /\ UNCHANGED <<operand, result, user, phase, users, messages, chat_input, tx, renderPending>>

HandleMsg(s) ==
    /\ phase = "Running"
    /\ LET decoded == DecodeFrame(s)
           msg == decoded.val
       IN  IF ~decoded.ok
           THEN Panic(s)
           ELSE CASE msg.message_type = "Users" -> HandleUsers(msg, s)
                  [] msg.message_type = "Message" -> HandleMessage(msg, s)
                  [] OTHER -> HandleOther(msg, s)

(***************************************************************************)
(* Chat::update, Msg::SubmitMessage                                        *)
(***************************************************************************)
\* Variant of SubmitEnvelope: the text is read after the input was cleared.
SubmitEnvelopeCleared(value) ==
    WebSocketMessage("Message", None(<<>>), Some(PlainText(<<>>)))

SubmitEnvelope(value) ==
    WebSocketMessage("Message", None(<<>>), Some(PlainText(value)))

\* Variant of SubmitMessage: the input is cleared only when the send went through.
SubmitMessageKeepsTextOnError ==
    /\ phase = "Running"
    /\ IF chat_input.mounted
       THEN /\ Len(tx) < MaxTx
            /\ LET message == SubmitEnvelope(chat_input.value)
               IN  \E ok \in BOOLEAN :
                     /\ tx' = TrySend(tx, EncodeFrame(message), ok)
                     /\ last' = Last("submit", NoFrame, chat_input.value,
                                     IF ok THEN "ok" ELSE "err", FALSE)
                     /\ chat_input' =
                            IF ok THEN [chat_input EXCEPT !.value = <<>>]
                            ELSE chat_input
       ELSE /\ last' = Last("submit", NoFrame, <<>>, "none", FALSE)
            /\ UNCHANGED <<tx, chat_input>>
    /\ UNCHANGED <<operand, result, user, phase, users, messages, renderPending>>

\* Variant of SubmitMessage: the submitted text is echoed into the transcript.
SubmitMessageEchoes ==
    /\ phase = "Running"
    /\ IF chat_input.mounted
       THEN /\ Len(tx) < MaxTx
            /\ LET message == SubmitEnvelope(chat_input.value)
               IN  \E ok \in BOOLEAN :
                     /\ tx' = TrySend(tx, EncodeFrame(message), ok)
                     /\ last' = Last("submit", NoFrame, chat_input.value,
                                     IF ok THEN "ok" ELSE "err", TRUE)
            /\ messages' = Append(messages, MessageData(user, chat_input.value))
            /\ renderPending' = TRUE
            /\ chat_input' = [chat_input EXCEPT !.value = <<>>]
       ELSE /\ last' = Last("submit", NoFrame, <<>>, "none", FALSE)
            /\ UNCHANGED <<tx, chat_input, messages, renderPending>>
    /\ UNCHANGED <<operand, result, user, phase, users>>

SubmitMessage ==
    /\ phase = "Running"
    /\ IF chat_input.mounted
       THEN /\ Len(tx) < MaxTx
            /\ LET message == SubmitEnvelope(chat_input.value)
               IN  \E ok \in BOOLEAN :
                     /\ tx' = TrySend(tx, EncodeFrame(message), ok)
                     /\ last' = Last("submit", NoFrame, chat_input.value,
                                     IF ok THEN "ok" ELSE "err", FALSE)
            /\ chat_input' = [chat_input EXCEPT !.value = <<>>]
       ELSE /\ last' = Last("submit", NoFrame, <<>>, "none", FALSE)
            /\ UNCHANGED <<tx, chat_input>>
    /\ UNCHANGED <<operand, result, user, phase, users, messages, renderPending>>

\* The person at the keyboard edits the <input> that view rendered.
TypeText(text) ==
    /\ phase = "Running"
    /\ chat_input.mounted
    /\ chat_input' = [chat_input EXCEPT !.value = text]
    /\ last' = Last("type", NoFrame, text, "none", FALSE)
    /\ UNCHANGED <<operand, result, user, phase, users, messages, tx, renderPending>>

(***************************************************************************)
(* Chat::view, the transcript part                                         *)
(***************************************************************************)
\* self.users.iter().find(|u| u.name == m.from)
FindUser(us, from) ==
    LET hits == {i \in 1..Len(us) : us[i].name = from}
    IN  IF hits = {}
        THEN None(UserProfile(<<>>, <<>>))
        ELSE Some(us[CHOOSE i \in hits : \A j \in hits : i <= j])

\* a transcript entry whose sender is in no roster profile
LookupMiss(us, ms) == \E i \in 1..Len(ms) : ~FindUser(us, ms[i].from).some

RenderMessages(us, ms) ==
    [i \in 1..Len(ms) |->
        [from |-> ms[i].from,
         avatar |-> FindUser(us, ms[i].from).val.avatar,
         category |-> RenderCategory(ms[i].message),
         message |-> ms[i].message]]

View ==
    /\ phase = "Running"
    /\ renderPending
    /\ IF LookupMiss(users, messages)
       THEN /\ phase' = "Panicked"
            /\ UNCHANGED <<chat_input, renderPending>>
       ELSE /\ chat_input' = [chat_input EXCEPT !.mounted = TRUE]
            /\ renderPending' = FALSE
            /\ phase' = phase
    /\ last' = Last("view", NoFrame, <<>>, "none", FALSE)
    /\ UNCHANGED <<operand, result, user, users, messages, tx>>

Next ==
    \/ Create
    \/ \E s \in InboundFrames : HandleMsg(s)
    \/ SubmitMessage
    \/ \E text \in InputTexts : TypeText(text)
    \/ View

Spec == Init /\ [][Next]_vars

(***************************************************************************)
(* The classifier on its own: the body of one transcript entry is drawn    *)
(* from ClassifierBodies and view's if / else if / else picks how it is     *)
(* shown.                                                                  *)
(***************************************************************************)
\* the nine ranges of is_single_emoji, as <<first, last>>
EmojiRanges ==
    {<<128512, 128591>>, <<127744, 128511>>, <<128640, 128767>>,
     <<128768, 128895>>, <<9728, 9983>>, <<9984, 10175>>,
     <<65024, 65039>>, <<129280, 129535>>, <<127000, 127600>>}

\* one-character bodies at and just outside both ends of every range
EdgeBodies ==
    UNION {{<<r[1] - 1>>, <<r[1]>>, <<r[2]>>, <<r[2] + 1>>} : r \in EmojiRanges}

\* "", "a", "aa", two emoji, ".gif", "a.gif", "a.GIF", "a.gi", "agif",
\* "a.gifa", "a b"
PlainBodies ==
    {<<>>, <<97>>, <<97, 97>>, <<128512, 128512>>,
     <<46, 103, 105, 102>>, <<97, 46, 103, 105, 102>>,
     <<97, 46, 71, 73, 70>>, <<97, 46, 103, 105>>, <<97, 103, 105, 102>>,
     <<97, 46, 103, 105, 102, 97>>, <<97, 32, 98>>}

\* runs of whitespace (space, line feed) of up to MaxPad characters
Pads == UNION {[1..k -> {32, 10}] : k \in 0..MaxPad}

ClassifierBodies ==
    {l \o b \o r : l \in Pads, r \in Pads, b \in EdgeBodies \cup PlainBodies}

InitClassify ==
    /\ operand \in ClassifierBodies
    /\ result = "none"
    /\ phase = "Classify"
    /\ user = Alice
    /\ users = <<>>
    /\ messages = <<>>
    /\ chat_input = [mounted |-> FALSE, value |-> <<>>]
    /\ tx = <<>>
    /\ renderPending = FALSE
    /\ last = Last("none", NoFrame, <<>>, "none", FALSE)

Classify ==
    /\ phase = "Classify"
    /\ result' = RenderCategory(operand)
    /\ phase' = "Classified"
    /\ UNCHANGED <<operand, user, users, messages, chat_input, tx, renderPending, last>>

SpecClassify == InitClassify /\ [][Classify]_vars

(***************************************************************************)
(* The envelope codec on its own: an envelope is written with              *)
(* serde_json::to_string and the text is read back with from_str.          *)
(***************************************************************************)
Envelopes ==
    {WebSocketMessage(t, da, d) :
        t \in MsgTypes,
        da \in {None(<<>>)} \cup {Some(ns) : ns \in NameLists},
        d \in {None(EmptyText)} \cup
              {Some(x) : x \in {EmptyText, PlainText(Alice), PlainText(Hi),
                                ObjectText(Value(Alice), Value(Hi)),
                                ObjectText(Value(Bob), Value(Grin))}}}

InitCodec ==
    /\ operand \in Envelopes
    /\ result = <<>>
    /\ phase = "Encode"
    /\ user = Alice
    /\ users = <<>>
    /\ messages = <<>>
    /\ chat_input = [mounted |-> FALSE, value |-> <<>>]
    /\ tx = <<>>
    /\ renderPending = FALSE
    /\ last = Last("none", NoFrame, <<>>, "none", FALSE)

Encode ==
    /\ phase = "Encode"
    /\ result' = EncodeFrame(operand)
    /\ phase' = "Encoded"
    /\ UNCHANGED <<operand, user, users, messages, chat_input, tx, renderPending, last>>

Decode ==
    /\ phase = "Encoded"
    /\ result' = DecodeFrame(result)
    /\ phase' = "Decoded"
    /\ UNCHANGED <<operand, user, users, messages, chat_input, tx, renderPending, last>>

NextCodec == Encode \/ Decode

SpecCodec == InitCodec /\ [][NextCodec]_vars

(***************************************************************************)
(* Properties.                                                             *)
(***************************************************************************)
IsPrefix(p, q) == Len(p) <= Len(q) /\ SubSeq(q, 1, Len(p)) = p

\* `e` records a HandleMsg whose frame decoded to the given kind.
IsFrameOfKind(e, kind) ==
    /\ e.op = "frame"
    /\ DecodeFrame(e.s).ok
    /\ DecodeFrame(e.s).val.message_type = kind

\* the dataArray of a decoded frame, empty when absent
NamesOf(s) ==
    LET da == DecodeFrame(s).val.data_array IN IF da.some THEN da.val ELSE <<>>

\* `e` records a message frame whose data holds a well-formed ChatMessage.
IsGoodMessage(e) ==
    /\ IsFrameOfKind(e, "Message")
    /\ DecodeFrame(e.s).val.data.some
    /\ DecodeMessageData(DecodeFrame(e.s).val.data.val).ok

\* `e` records a message frame whose data is absent or no ChatMessage.
IsBadMessage(e) == IsFrameOfKind(e, "Message") /\ ~IsGoodMessage(e)

ChatMessageOf(s) == DecodeMessageData(DecodeFrame(s).val.data.val).val

UniqueNames(us) ==
    \A i, j \in 1..Len(us) : us[i].name = us[j].name => i = j

NoRepeats(ns) == \A i, j \in 1..Len(ns) : ns[i] = ns[j] => i = j

\* C1: a frame that is malformed or of an unknown messageType is dropped and
\* the session goes on: after such a HandleMsg the component is still running.
C1_RejectedFrameDropped ==
    (last.op = "frame" /\ ~DecodeFrame(last.s).ok) => phase = "Running"

\* C2: a message frame whose data is absent or is not a well-formed
\* ChatMessage is dropped and the session goes on.
C2_BadNestedDropped ==
    IsBadMessage(last) => phase = "Running"

\* C3: rendering never crashes, also when a transcript entry's sender is in
\* no roster profile: after view has run the component is still running.
C3_RenderNeverCrashes ==
    last.op = "view" => phase = "Running"

\* C4: the transcript is append-only: every step leaves the old transcript a
\* prefix of the new one, and a message frame with a well-formed ChatMessage m
\* makes the new transcript the old one with m appended.
C4_TranscriptAppendOnly ==
    [][/\ IsPrefix(messages, messages')
       /\ IsGoodMessage(last') =>
            messages' = Append(messages, ChatMessageOf(last'.s))]_vars

C4_Witness ==
    /\ IsGoodMessage(last)
    /\ Len(messages) = 2
    /\ messages[1] = messages[2]
    /\ messages[2] = ChatMessageOf(last.s)

\* C5: after a users frame carrying dataArray = names the roster has one
\* profile per entry of names, in the same order, with that entry as its name.
C5_RosterMatchesNames ==
    (IsFrameOfKind(last, "Users") /\ DecodeFrame(last.s).val.data_array.some) =>
        /\ Len(users) = Len(last.s.dataArray.val)
        /\ \A i \in 1..Len(users) : users[i].name = last.s.dataArray.val[i]

C5_Witness ==
    /\ IsFrameOfKind(last, "Users")
    /\ last.s.dataArray = Value(<<Bob, Alice>>)
    /\ Len(users) = 2
    /\ users[1].name = Bob

\* C6 as stated: no two roster profiles ever have the same name.
C6_RosterNamesUnique == UniqueNames(users)

\* C6 amended: after a users frame the roster's names are pairwise distinct
\* exactly when the frame's dataArray repeats no username.
C6_UniqueIffNoRepeats ==
    IsFrameOfKind(last, "Users") =>
        (UniqueNames(users) <=> NoRepeats(NamesOf(last.s)))

C6_Witness ==
    /\ IsFrameOfKind(last, "Users")
    /\ NamesOf(last.s) = <<Bob, Bob>>
    /\ Len(users) = 2
    /\ users[1].name = users[2].name

\* C7: a users frame leaves the transcript as it was and a message frame
\* leaves the roster as it was.
C7_StoresIndependent ==
    [][/\ IsFrameOfKind(last', "Users") => messages' = messages
       /\ IsFrameOfKind(last', "Message") => users' = users]_vars

C7_Witness ==
    /\ IsFrameOfKind(last, "Users")
    /\ NamesOf(last.s) # <<>>
    /\ messages # <<>>

\* C8: an inbound register frame changes neither roster, transcript nor the
\* outbound channel, and update returns false (no render is scheduled).
C8_RegisterIgnored ==
    [][IsFrameOfKind(last', "Register") =>
          /\ users' = users
          /\ messages' = messages
          /\ tx' = tx
          /\ renderPending' = renderPending
          /\ last'.ret = FALSE
          /\ phase' = "Running"]_vars

C8_Witness ==
    /\ IsFrameOfKind(last, "Register")
    /\ users # <<>>
    /\ messages # <<>>
    /\ ~renderPending

\* C9: creation hands one register envelope to the channel, data = the local
\* username and dataArray null, and starts with empty roster and transcript,
\* whether or not the channel took it; no later send is a register envelope.
C9_RegisterOnceOnCreate ==
    /\ phase = "Connecting" => tx = <<>>
    /\ phase # "Connecting" =>
         /\ Len(tx) >= 1
         /\ tx[1].text = ObjectFrame(Value("register"), Null(<<>>),
                                     Value(PlainText(user)))
         /\ \A i \in 2..Len(tx) : tx[i].text.messageType # Value("register")
    /\ last.op = "create" =>
         /\ phase = "Running"
         /\ Len(tx) = 1
         /\ users = <<>>
         /\ messages = <<>>

C9_Witness ==
    /\ Len(tx) = 2
    /\ ~tx[1].ok
    /\ tx[2].ok
    /\ user = Bob

\* C10: a SubmitMessage that reads text from the input and whose send is
\* accepted adds exactly one envelope to the outbound channel: kind message,
\* dataArray null, data = text.
C10_SubmitSendsOneMessage ==
    [][(last'.op = "submit" /\ last'.sent = "ok") =>
          /\ last'.text = chat_input.value
          /\ Outbound' = Append(Outbound,
                 ObjectFrame(Value("message"), Null(<<>>),
                             Value(PlainText(chat_input.value))))]_vars

C10_Witness ==
    /\ last.op = "submit"
    /\ last.sent = "ok"
    /\ last.text = Hi
    /\ Len(Outbound) = 2

\* C11: after a SubmitMessage the input is empty whether the send was accepted
\* or rejected; a rejected send is one try_send that leaves the channel,
\* the roster and the transcript as they were.
C11_InputClearedAnyOutcome ==
    [][last'.op = "submit" =>
          /\ chat_input'.value = <<>>
          /\ users' = users
          /\ messages' = messages
          /\ last'.sent = "err" =>
                /\ Outbound' = Outbound
                /\ Len(tx') = Len(tx) + 1]_vars

C11_Witness ==
    /\ last.op = "submit"
    /\ last.sent = "err"
    /\ last.text = Hi
    /\ chat_input.value = <<>>
    /\ users # <<>>
    /\ messages # <<>>

\* the dataArray of a raw frame as a list, empty when the key is absent or null
RawNames(s) == IF s.dataArray.tag = "value" THEN s.dataArray.val ELSE <<>>

\* the roster a list of names stands for
ExpectedRoster(ns) ==
    [i \in 1..Len(ns) |->
        [name |-> ns[i], avatar |-> AvatarPrefix \o ns[i] \o AvatarSuffix]]

\* `e` records a users frame: a JSON object, messageType "users", dataArray
\* and data each absent, null or of their own type.
IsRawUsers(e) ==
    /\ e.op = "frame"
    /\ e.s.syntax = "object"
    /\ e.s.messageType = Value("users")
    /\ e.s.dataArray.tag # "wrongtype"
    /\ e.s.data.tag # "wrongtype"

\* `e` records a message frame whose data is the text of a {from, message}
\* object, dataArray absent, null or a list.
IsRawMessage(e) ==
    /\ e.op = "frame"
    /\ e.s.syntax = "object"
    /\ e.s.messageType = Value("message")
    /\ e.s.dataArray.tag # "wrongtype"
    /\ e.s.data.tag = "value"
    /\ e.s.data.val.syntax = "object"
    /\ e.s.data.val.from.tag = "value"
    /\ e.s.data.val.message.tag = "value"

\* C15: a users frame whose dataArray is missing or null leaves the roster
\* empty, whatever it was, and the component keeps running.
C15_AbsentArrayEmptiesRoster ==
    (IsRawUsers(last) /\ last.s.dataArray.tag \in {"missing", "null"}) =>
        /\ users = <<>>
        /\ phase = "Running"
        /\ last.ret = TRUE

C15_Witness ==
    /\ IsRawUsers(last)
    /\ last.s.dataArray.tag = "missing"
    /\ users = <<>>
    /\ messages # <<>>

\* C16: the roster after a users frame is the one its dataArray stands for
\* and nothing else: no profile of the roster before it is kept, so the same
\* frame delivered again leaves the same roster.
C16_RosterReplacedWholesale ==
    [][IsFrameOfKind(last', "Users") =>
          /\ users' = ExpectedRoster(NamesOf(last'.s))
          /\ (IsFrameOfKind(last, "Users") /\ last.s = last'.s) => users' = users
          /\ \A i \in 1..Len(users') :
                \E k \in 1..Len(NamesOf(last'.s)) :
                    users'[i].name = NamesOf(last'.s)[k]]_vars

C16_Witness ==
    /\ IsFrameOfKind(last, "Users")
    /\ NamesOf(last.s) = <<Alice>>
    /\ users = ExpectedRoster(<<Alice>>)
    /\ \E i \in 1..Len(messages) : messages[i].from = Bob

\* C17: the field a kind does not use never changes the outcome: a users
\* frame is applied from its dataArray alone, with data present or absent, and
\* a message frame from its data alone, with dataArray present or absent;
\* neither is refused.
C17_UnusedFieldIgnored ==
    /\ IsRawUsers(last) =>
          /\ phase = "Running"
          /\ last.ret = TRUE
          /\ users = ExpectedRoster(RawNames(last.s))
    /\ IsRawMessage(last) =>
          /\ phase = "Running"
          /\ last.ret = TRUE
          /\ messages # <<>>
          /\ messages[Len(messages)] =
                [from |-> last.s.data.val.from.val,
                 message |-> last.s.data.val.message.val]

C17_Witness ==
    /\ IsRawMessage(last)
    /\ last.s.dataArray.tag = "value"
    /\ Len(messages) = 2
    /\ users # <<>>

\* C18: a SubmitMessage changes neither the roster nor the transcript, asks
\* for no re-render and returns false; only inbound frames change the stores.
C18_SubmitLeavesStores ==
    [][/\ last'.op = "submit" =>
            /\ users' = users
            /\ messages' = messages
            /\ renderPending' = renderPending
            /\ last'.ret = FALSE
            /\ phase' = "Running"
       /\ (users' # users \/ messages' # messages) => last'.op = "frame"]_vars

C18_Witness ==
    /\ last.op = "submit"
    /\ last.text = Hi
    /\ last.sent = "ok"
    /\ messages # <<>>
    /\ users # <<>>
    /\ ~renderPending

\* C19 as stated: every message envelope on the outbound channel has the
\* register envelope before it on that channel.
C19_RegisterPrecedesMessages ==
    \A i \in 1..Len(Outbound) :
        Outbound[i].messageType = Value("message") =>
            \E j \in 1..(i - 1) : Outbound[j].messageType = Value("register")

\* C19 amended: every message try_send comes after the one register
\* try_send, and when the channel accepted that one the register envelope is
\* the first on the channel.
C19_RegisterAttemptPrecedes ==
    /\ \A i \in 1..Len(tx) :
          tx[i].text.messageType = Value("message") =>
              /\ i > 1
              /\ tx[1].text.messageType = Value("register")
    /\ (tx # <<>> /\ tx[1].ok) =>
          Outbound[1].messageType = Value("register")

C19_Witness ==
    /\ Len(tx) = 2
    /\ tx[1].ok
    /\ tx[2].ok
    /\ Outbound[2].messageType = Value("message")
    /\ Outbound[1].messageType = Value("register")

\* code point c lies in one of the nine inclusive ranges of the classifier
InListedRanges(c) ==
    \/ c \in 128512..128591     \* 1F600..1F64F
    \/ c \in 127744..128511     \* 1F300..1F5FF
    \/ c \in 128640..128767     \* 1F680..1F6FF
    \/ c \in 128768..128895     \* 1F700..1F77F
    \/ c \in 9728..9983         \* 2600..26FF
    \/ c \in 9984..10175        \* 2700..27BF
    \/ c \in 65024..65039       \* FE00..FE0F
    \/ c \in 129280..129535     \* 1F900..1F9FF
    \/ c \in 127000..127600     \* 1F018..1F270

\* C12 as stated: a body is shown as Image exactly when the body with its
\* leading and trailing whitespace trimmed ends with ".gif".
C12_ImageIffTrimmedGif ==
    phase = "Classified" =>
        (result = "Image" <=> EndsWith(Trim(operand), DotGif))

\* C13: a body not shown as Image is shown as SingleEmoji exactly when,
\* trimmed, it is one character of the nine ranges; every other such body
\* (the empty one, any of two or more characters) is shown as Text.
C13_SingleEmojiIffOneListedChar ==
    (phase = "Classified" /\ result # "Image") =>
        LET trimmed == Trim(operand)
            one == Len(trimmed) = 1 /\ InListedRanges(trimmed[1])
        IN  /\ one => result = "SingleEmoji"
            /\ ~one => result = "Text"

C13_Witness ==
    /\ phase = "Classified"
    /\ operand = <<32, 128512, 10>>
    /\ result = "SingleEmoji"

\* C14: reading back the text an envelope was written to gives the same
\* envelope: same kind, same dataArray and same data, absence included.
C14_RoundTrip ==
    phase = "Decoded" => (result.ok /\ result.val = operand)

C14_Witness ==
    /\ phase = "Decoded"
    /\ operand = WebSocketMessage("Users", Some(<<>>), None(EmptyText))
    /\ result.ok
    /\ result.val.data_array.some
    /\ ~result.val.data.some

====
